---- MODULE Spec2Model ----
(***************************************************************************)
(* Compute-backend discovery and activation in the three Blender scripts   *)
(* render_script.py, setup_cuda.py and batch_cycles.py.                     *)
(*                                                                         *)
(* The host (bpy) owns the Cycles preferences: the active backend kind     *)
(* compute_device_type, the device collection cycles_prefs.devices (every  *)
(* device of every kind, each with a type and a use flag) and the scene's  *)
(* render device scene.cycles.device.  Assigning compute_device_type and   *)
(* calling refresh_devices() may raise; whether they do for a given kind   *)
(* is a property of the host that does not change between probes.          *)
(***************************************************************************)
EXTENDS Naturals, Sequences, FiniteSets

\* Largest number of entries in cycles_prefs.devices that is explored.
MaxDevices == 2

Kinds == {"CUDA", "OPTIX", "OPENCL", "HIP"}

DeviceTypes == Kinds \cup {"CPU"}

Scripts == {"render_script", "setup_cuda", "batch_cycles"}

\* What the host does when a kind is probed: both calls succeed, the
\* assignment to compute_device_type raises, or refresh_devices() raises.
HostOutcomes == {"ok", "set_raises", "refresh_raises"}

VARIABLES
    script,                 \* which script is running
    pc,                     \* position in the script
    run,                    \* 1 on the first execution, 2 on the repeat
    idx,                    \* position of the for loop in its list
    device_type,            \* the loop variable
    compute_device_type,    \* cycles_prefs.compute_device_type
    devices,                \* cycles_prefs.devices: sequence of [type, use]
    cycles_device,          \* scene.cycles.device
    device_type_found,      \* the loop ended by break
    selected_device_type,   \* the kind the loop stopped at
    enabled,                \* indices whose use flag the run assigned, in order
    log,                    \* the per-candidate lines the script printed
    host,                   \* per kind: how the host answers a probe
    devices0,               \* cycles_prefs.devices when the run started
    first                   \* what the first execution left, for the repeat

vars == <<script, pc, run, idx, device_type, compute_device_type, devices,
          cycles_device, device_type_found, selected_device_type, enabled,
          log, host, devices0, first>>

-----------------------------------------------------------------------------
\* The ordered candidate list of each script's for loop.
Candidates(s) ==
    IF s = "render_script" THEN <<"CUDA", "OPTIX", "OPENCL", "HIP">>
    ELSE IF s = "setup_cuda" THEN <<"CUDA", "OPTIX", "OPENCL">>
    ELSE <<>>

\* The kinds setup_cuda.py accepts as a GPU device.
GpuTypes == {"CUDA", "OPTIX", "OPENCL"}

\* [d for d in devs if d.type in T], as indices into devs, in list order.
FilterIdx(devs, T) ==
    LET F[i \in 0..Len(devs)] ==
            IF i = 0 THEN <<>>
            ELSE IF devs[i].type \in T THEN Append(F[i - 1], i)
            ELSE F[i - 1]
    IN  F[Len(devs)]

\* A mutation of AvailableDevices: devices already in use are skipped.
AvailableDevicesUnused(devs, k) ==
    SelectSeq(FilterIdx(devs, {k}), LAMBDA i : ~devs[i].use)

\* A mutation of AfterSet: the probe does not switch the backend.
AfterSetStale(old, k, o) == old

\* render_script.py: available_devices = [d ... if d.type == device_type]
AvailableDevices(devs, k) == FilterIdx(devs, {k})

\* setup_cuda.py: gpu_devices = [d ... if d.type in ['CUDA','OPTIX','OPENCL']]
GpuDevices(devs) == FilterIdx(devs, GpuTypes)

\* batch_cycles.py: the devices with device.type == 'CUDA'
CudaDevices(devs) == FilterIdx(devs, {"CUDA"})

Range(s) == {s[i] : i \in DOMAIN s}

\* for device in sel: device.use = True
Enable(devs, sel) ==
    [i \in DOMAIN devs |->
        IF i \in Range(sel) THEN [devs[i] EXCEPT !.use = TRUE] ELSE devs[i]]

\* The host answers a probe of kind k with outcome o: the first probe of a
\* kind fixes the answer, later probes of the same kind repeat it.
HostAnswers(k, o) == host[k] = "unknown" \/ host[k] = o

\* compute_device_type after "cycles_prefs.compute_device_type = k": a
\* raising assignment leaves the old value.
AfterSet(old, k, o) == IF o = "set_raises" THEN old ELSE k

\* Either call of the try body raised: control goes to the except clause.
Raised(o) == o # "ok"

\* A mutation of Found: the device check also runs when the probe raised.
FoundIgnoringRaise(o, sel) == sel # <<>>

\* The try body reached "if <filtered list>:" and the list was non-empty.
Found(o, sel) == ~Raised(o) /\ sel # <<>>

StartPc(s) == IF s = "batch_cycles" THEN "batch_type" ELSE "loop"

\* Where the loop goes after an iteration that did not break.
Continue(s, i) ==
    IF i < Len(Candidates(s)) THEN "loop"
    ELSE IF s = "setup_cuda" THEN "no_gpu" ELSE "after_loop"

\* A mutation of ExceptPc: the error is not handled and ends the script.
ExceptPcEscapes(s, i) == "raised"

\* The except clause prints the error and the loop goes on.
ExceptPc(s, i) == Continue(s, i)

\* A mutation of AfterFound: the break is missing and the loop goes on.
AfterFoundNoBreak(s, i) == [pc |-> Continue(s, i), idx |-> i + 1]

\* The break: the loop is left with the loop variable where it stands.
AfterFound(s, i) ==
    [pc |-> IF s = "setup_cuda" THEN "enable" ELSE "after_loop", idx |-> i]

DeviceLists ==
    UNION {[1..n -> [type : DeviceTypes, use : BOOLEAN]] : n \in 0..MaxDevices}

Init ==
    /\ script \in Scripts
    /\ pc = StartPc(script)
    /\ run = 1
    /\ idx = 1
    /\ device_type = "NONE"
    /\ compute_device_type \in Kinds \cup {"NONE"}
    /\ devices \in DeviceLists
    /\ cycles_device \in {"CPU", "GPU"}
    /\ device_type_found = FALSE
    /\ selected_device_type = "NONE"
    /\ enabled = <<>>
    /\ log = <<>>
    /\ host = [k \in Kinds |-> "unknown"]
    /\ devices0 = devices
    /\ first = "none"

-----------------------------------------------------------------------------
\* render_script.py, one iteration of "for device_type in [...]": try to
\* switch the backend and refresh, filter by exact kind, enable and break.
RenderProbe ==
    /\ script = "render_script"
    /\ pc = "loop"
    /\ LET k == Candidates(script)[idx] IN
       \E o \in HostOutcomes :
          /\ HostAnswers(k, o)
          /\ host' = [host EXCEPT ![k] = o]
          /\ device_type' = k
          /\ compute_device_type' = AfterSet(compute_device_type, k, o)
          /\ IF Found(o, AvailableDevices(devices, k))
             THEN /\ devices' = Enable(devices, AvailableDevices(devices, k))
                  /\ enabled' = AvailableDevices(devices, k)
                  /\ device_type_found' = TRUE
                  /\ selected_device_type' = k
                  /\ log' = Append(log, [kind |-> k, outcome |-> "found"])
                  /\ idx' = AfterFound(script, idx).idx
                  /\ pc' = AfterFound(script, idx).pc
             ELSE /\ log' = Append(log, [kind |-> k,
                        outcome |-> IF Raised(o) THEN "error" ELSE "none"])
                  /\ idx' = idx + 1
                  /\ pc' = IF Raised(o) THEN ExceptPc(script, idx)
                           ELSE Continue(script, idx)
                  /\ UNCHANGED <<devices, enabled, device_type_found,
                                 selected_device_type>>
    /\ UNCHANGED <<script, run, cycles_device, devices0, first>>

\* render_script.py: if device_type_found: 'GPU' else: 'CPU'
RenderAssign ==
    /\ script = "render_script"
    /\ pc = "after_loop"
    /\ cycles_device' = IF device_type_found THEN "GPU" ELSE "CPU"
    /\ pc' = "done"
    /\ UNCHANGED <<script, run, idx, device_type, compute_device_type, devices,
                   device_type_found, selected_device_type, enabled, log, host,
                   devices0, first>>

\* setup_cuda.py, one iteration of the for loop: try to switch the backend
\* and refresh, break if any device of a GPU kind is listed.
SetupProbe ==
    /\ script = "setup_cuda"
    /\ pc = "loop"
    /\ LET k == Candidates(script)[idx] IN
       \E o \in HostOutcomes :
          /\ HostAnswers(k, o)
          /\ host' = [host EXCEPT ![k] = o]
          /\ device_type' = k
          /\ compute_device_type' = AfterSet(compute_device_type, k, o)
          /\ IF Found(o, GpuDevices(devices))
             THEN /\ device_type_found' = TRUE
                  /\ selected_device_type' = k
                  /\ log' = Append(log, [kind |-> k, outcome |-> "found"])
                  /\ idx' = AfterFound(script, idx).idx
                  /\ pc' = AfterFound(script, idx).pc
             ELSE /\ log' = Append(log, [kind |-> k,
                        outcome |-> IF Raised(o) THEN "error" ELSE "none"])
                  /\ idx' = idx + 1
                  /\ pc' = IF Raised(o) THEN ExceptPc(script, idx)
                           ELSE Continue(script, idx)
                  /\ UNCHANGED <<device_type_found, selected_device_type>>
    /\ UNCHANGED <<script, run, devices, enabled, cycles_device, devices0,
                   first>>

\* setup_cuda.py, the for loop's else: no break happened, return False.
SetupNoGpu ==
    /\ script = "setup_cuda"
    /\ pc = "no_gpu"
    /\ pc' = "done"
    /\ UNCHANGED <<script, run, idx, device_type, compute_device_type, devices,
                   cycles_device, device_type_found, selected_device_type,
                   enabled, log, host, devices0, first>>

\* setup_cuda.py after the break: enable every device of a GPU kind, count
\* them, return False on zero, else set the scene to 'GPU' and return True.
SetupEnable ==
    /\ script = "setup_cuda"
    /\ pc = "enable"
    /\ devices' = Enable(devices, GpuDevices(devices))
    /\ enabled' = GpuDevices(devices)
    /\ cycles_device' = IF Len(GpuDevices(devices)) = 0 THEN cycles_device
                        ELSE "GPU"
    /\ pc' = "done"
    /\ UNCHANGED <<script, run, idx, device_type, compute_device_type,
                   device_type_found, selected_device_type, log, host,
                   devices0, first>>

\* batch_cycles.py: cycles_prefs.compute_device_type = 'CUDA', outside any
\* try: a raising assignment ends the script.
BatchSetType ==
    /\ script = "batch_cycles"
    /\ pc = "batch_type"
    /\ \E o \in {"ok", "set_raises"} :
          /\ HostAnswers("CUDA", o)
          /\ host' = [host EXCEPT !["CUDA"] = o]
          /\ compute_device_type' = AfterSet(compute_device_type, "CUDA", o)
          /\ pc' = IF Raised(o) THEN "raised" ELSE "batch_enable"
    /\ UNCHANGED <<script, run, idx, device_type, devices, cycles_device,
                   device_type_found, selected_device_type, enabled, log,
                   devices0, first>>

\* batch_cycles.py: for device in devices: if device.type == 'CUDA': use = True
BatchEnable ==
    /\ script = "batch_cycles"
    /\ pc = "batch_enable"
    /\ devices' = Enable(devices, CudaDevices(devices))
    /\ enabled' = CudaDevices(devices)
    /\ pc' = "batch_device"
    /\ UNCHANGED <<script, run, idx, device_type, compute_device_type,
                   cycles_device, device_type_found, selected_device_type, log,
                   host, devices0, first>>

\* batch_cycles.py: scene.cycles.device = 'GPU'
BatchSetDevice ==
    /\ script = "batch_cycles"
    /\ pc = "batch_device"
    /\ cycles_device' = "GPU"
    /\ pc' = "done"
    /\ UNCHANGED <<script, run, idx, device_type, compute_device_type, devices,
                   device_type_found, selected_device_type, enabled, log, host,
                   devices0, first>>

\* The outcome of a finished run: render_script.py reports success through
\* device_type_found, setup_cuda.py through its return value.
Status ==
    IF pc # "done" THEN "Running"
    ELSE IF device_type_found /\ (script = "setup_cuda" => Len(enabled) > 0)
         THEN "Selected"
    ELSE "NoHardwareFound"

\* The same script is executed again in the same host session: the
\* preferences, the device flags and the scene keep what the first run left.
Rerun ==
    /\ pc = "done"
    /\ run = 1
    /\ run' = 2
    /\ first' = [status |-> Status, chosen |-> selected_device_type,
                 activated |-> enabled, devices |-> devices,
                 before |-> devices0]
    /\ pc' = StartPc(script)
    /\ idx' = 1
    /\ device_type' = "NONE"
    /\ device_type_found' = FALSE
    /\ selected_device_type' = "NONE"
    /\ enabled' = <<>>
    /\ log' = <<>>
    /\ devices0' = devices
    /\ UNCHANGED <<script, compute_device_type, devices, cycles_device, host>>

Next ==
    \/ RenderProbe
    \/ RenderAssign
    \/ SetupProbe
    \/ SetupNoGpu
    \/ SetupEnable
    \/ BatchSetType
    \/ BatchEnable
    \/ BatchSetDevice

Spec == Init /\ [][Next]_vars

NextTwice == Next \/ Rerun

SpecTwice == Init /\ [][NextTwice]_vars

-----------------------------------------------------------------------------
(* Vocabulary of the properties below. *)

\* The scripts that run a selection loop over a candidate list.
Selecting == script \in {"render_script", "setup_cuda"}

Failures == {"set_raises", "refresh_raises"}

\* The list the running script tests for emptiness when it probes kind k.
Filtered(k) ==
    IF script = "setup_cuda" THEN GpuDevices(devices)
    ELSE AvailableDevices(devices, k)

\* Candidate i was probed without error and a device of its own kind is listed.
HasOwnDevice(i) ==
    /\ host[Candidates(script)[i]] = "ok"
    /\ AvailableDevices(devices, Candidates(script)[i]) # <<>>

\* Some entry of the log is the error of a probe.
ErrorLogged == \E i \in DOMAIN log : log[i].outcome = "error"

-----------------------------------------------------------------------------
\* C1 (as stated): when a selection run has ended and some candidate was
\* probed without error and has a device of its own kind, the run is
\* Selected and the chosen kind is the first such candidate; and a kind
\* that has no device of its own kind is never the chosen one.
C1_PriorityByOwnKind ==
    (Selecting /\ pc = "done") =>
        LET c == Candidates(script) IN
        /\ (\E i \in DOMAIN c : HasOwnDevice(i)) =>
              /\ Status = "Selected"
              /\ \E i \in DOMAIN c :
                    /\ selected_device_type = c[i]
                    /\ HasOwnDevice(i)
                    /\ \A j \in 1..(i - 1) : ~HasOwnDevice(j)
        /\ Status = "Selected" =>
              AvailableDevices(devices, selected_device_type) # <<>>

\* Part of C2, the state: an error of the probe of candidate K never ends
\* the script and never makes K the chosen kind, and when K is not the last
\* candidate the next one is probed (it is already in the log, or the loop
\* stands at it); after the last candidate the run ends normally.
C2_ErrorsAreLocal ==
    Selecting =>
        /\ pc # "raised"
        /\ \A i \in DOMAIN log :
              log[i].outcome = "error" =>
                 /\ log[i].kind # selected_device_type
                 /\ i < Len(Candidates(script)) =>
                       \/ Len(log) > i
                       \/ pc = "loop" /\ idx = i + 1
                 /\ i = Len(Candidates(script)) =>
                       pc \in {"after_loop", "no_gpu", "done"}

\* Part of C2, the step: the probe that logs an error counts as zero
\* devices: it enables nothing, chooses nothing and moves to the next
\* candidate.
C2_ErrorStep ==
    (Len(log') = Len(log) + 1 /\ log'[Len(log')].outcome = "error") =>
        /\ devices' = devices
        /\ enabled' = enabled
        /\ device_type_found' = device_type_found
        /\ selected_device_type' = selected_device_type
        /\ idx' = idx + 1

\* C2: a probe failure on candidate K is caught inside the loop, counts as
\* zero devices for K, never aborts the selection or escapes as an
\* exception, and candidate K+1 (when it exists) is still probed.
C2_Recoverable == [](C2_ErrorsAreLocal) /\ [][C2_ErrorStep]_vars

\* C2 witness: the probe of the first candidate raised, the second was
\* probed all the same and won (the spec's example scenario 2).
C2_Witness ==
    /\ Selecting
    /\ Status = "Selected"
    /\ Len(log) = 2
    /\ log[1].outcome = "error"
    /\ log[2].outcome = "found"

\* C3 (as stated): in a selection run every device whose kind is not the
\* chosen kind (every device while nothing is chosen) keeps the enabled
\* flag it had when the run started.
C3_FrameByChosenKind ==
    Selecting =>
        \A i \in DOMAIN devices :
            devices[i].type # selected_device_type =>
                devices[i].use = devices0[i].use

C5_ActivatedAreChosenKind ==
    (Selecting /\ Status = "Selected") =>
        /\ enabled = AvailableDevices(devices, selected_device_type)
        /\ \A i \in Range(enabled) : devices[i].use

\* C6: a repeat of a selection run on the same host, started from what the
\* first run left, ends with the status, the chosen kind, the activated
\* devices and the device flags of the first run.
C6_Idempotent ==
    (Selecting /\ run = 2 /\ pc = "done") =>
        /\ Status = first.status
        /\ selected_device_type = first.chosen
        /\ enabled = first.activated
        /\ devices = first.devices

\* C6 witness: a repeat that ended Selected after an error on an earlier
\* candidate, on a host where the first run had to switch a device on.
C6_Witness ==
    /\ Selecting
    /\ run = 2
    /\ pc = "done"
    /\ Status = "Selected"
    /\ ErrorLogged
    /\ first.status = "Selected"
    /\ first.devices # first.before
    /\ devices = devices0

\* Part of C8, the state of the log: it lists the candidates in list
\* order, one entry per probe and never more entries than candidates; only
\* the last entry can be a hit, and a hit ends the loop and names the one
\* chosen kind.
C8_LogInOrder ==
    Selecting =>
        /\ Len(log) <= Len(Candidates(script))
        /\ \A i \in DOMAIN log : log[i].kind = Candidates(script)[i]
        /\ \A i \in DOMAIN log :
              log[i].outcome = "found" =>
                 /\ i = Len(log)
                 /\ pc # "loop"
                 /\ selected_device_type = log[i].kind
        /\ device_type_found <=>
              (log # <<>> /\ log[Len(log)].outcome = "found")
        /\ ~device_type_found => selected_device_type = "NONE"

\* Part of C8, the steps after the break: no step probes again, so the
\* log, the chosen kind and the active backend kind stay as they are.
C8_NoProbeAfterHit ==
    device_type_found =>
        /\ log' = log
        /\ compute_device_type' = compute_device_type
        /\ selected_device_type' = selected_device_type

\* C8: in every selection run the candidates are probed in list order, each
\* at most once and at most as many times as there are candidates, at most
\* one kind is chosen, and once a candidate yields a non-empty filtered
\* list no later candidate is probed and the backend is not switched again.
C8_OrderAndEarlyStop == [](C8_LogInOrder) /\ [][C8_NoProbeAfterHit]_vars

\* C8 witness: a finished run that stopped at its second candidate with
\* later candidates left unprobed.
C8_Witness ==
    /\ Selecting
    /\ pc = "done"
    /\ device_type_found
    /\ Len(log) = 2
    /\ Len(log) < Len(Candidates(script))
    /\ host[Candidates(script)[3]] = "unknown"

\* C9 (as stated): in every script that has ended, the scene's render
\* device is 'GPU' only if the run enabled at least one device.
C9_GpuOnlyWithDevices ==
    pc = "done" => (cycles_device = "GPU" => enabled # <<>>)

====
